---- MODULE Spec2Model ----
(***************************************************************************)
(* Model of handhistory.py (PokerHandParser).                              *)
(*                                                                         *)
(* Text is modelled as TLA+ strings, character by character: the regular   *)
(* expressions and str.split are computed on the characters of the text.   *)
(* Python values are tagged records: None, int, float, dict.               *)
(***************************************************************************)
EXTENDS Integers, Sequences, FiniteSets, TLC

VARIABLES
    pc,              \* position of the running call / of the __main__ script
    file,            \* what open(filename) finds: a status or the file's text
    hand_histories,  \* the blocks produced by split("\n\n\n")
    idx,             \* enumerate(hand_histories, start=1) index
    parsed_hand,     \* result of the last parse_hand_history call
    table,           \* rows of HandHistories written by this run (a sequence)
    log,             \* the events of the run, in order
    raised           \* TRUE once an exception escaped to the caller

vars == <<pc, file, hand_histories, idx, parsed_hand, table, log, raised>>

----------------------------------------------------------------------------
(* Bounds *)

MaxFrags  == 3   \* fragments concatenated into one block for the parser
MaxLen    == 7   \* characters of a text given to the splitter
MaxBlocks == 3   \* blocks of a file processed by the loop

----------------------------------------------------------------------------
(* Python values *)

None == [type |-> "NoneType"]

PyInt(n) == [type |-> "int", v |-> n]

\* a float read from decimal text, kept as the exact decimal m / 10^e
PyFloat(m, e) == [type |-> "float", m |-> m, e |-> e]

\* Python truth value of None / int / dict
Truthy(x) ==
    CASE x.type = "NoneType" -> FALSE
      [] x.type = "int"      -> x.v # 0
      [] OTHER               -> TRUE

----------------------------------------------------------------------------
(* Characters and strings *)

Digits == {"0", "1", "2", "3", "4", "5", "6", "7", "8", "9"}

WordChars == Digits \cup {"_"} \cup
    {"a", "b", "c", "d", "e", "f", "g", "h", "i", "j", "k", "l", "m",
     "n", "o", "p", "q", "r", "s", "t", "u", "v", "w", "x", "y", "z",
     "A", "B", "C", "D", "E", "F", "G", "H", "I", "J", "K", "L", "M",
     "N", "O", "P", "Q", "R", "S", "T", "U", "V", "W", "X", "Y", "Z"}

Char(s, i) == IF i >= 1 /\ i <= Len(s) THEN SubSeq(s, i, i) ELSE ""

\* the literal lit occurs in s starting at position i
StartsAt(s, lit, i) ==
    /\ i >= 1
    /\ i + Len(lit) - 1 <= Len(s)
    /\ SubSeq(s, i, i + Len(lit) - 1) = lit

\* Python: lit in s
Contains(lit, s) == \E i \in 1..Len(s) : StartsAt(s, lit, i)

\* str.find(lit, from): the least position >= from where lit occurs, else 0
Find(s, lit, from) ==
    LET hits == {i \in from..Len(s) : StartsAt(s, lit, i)}
    IN  IF hits = {} THEN 0 ELSE CHOOSE i \in hits : \A j \in hits : i <= j

\* last position of the maximal run of characters of class cls that starts
\* at position i (i - 1 when the run is empty): the greedy match of cls+
RECURSIVE RunEnd(_, _, _)
RunEnd(s, i, cls) ==
    IF Char(s, i) \in cls THEN RunEnd(s, i + 1, cls) ELSE i - 1

DigitVal(c) ==
    CASE c = "0" -> 0 [] c = "1" -> 1 [] c = "2" -> 2 [] c = "3" -> 3
      [] c = "4" -> 4 [] c = "5" -> 5 [] c = "6" -> 6 [] c = "7" -> 7
      [] c = "8" -> 8 [] c = "9" -> 9

\* int(d) for a non-empty string of digits
RECURSIVE IntOf(_)
IntOf(d) ==
    IF Len(d) = 0 THEN 0
    ELSE 10 * IntOf(SubSeq(d, 1, Len(d) - 1)) + DigitVal(Char(d, Len(d)))

\* drop the trailing zeros of a fraction's digits
RECURSIVE StripZeros(_)
StripZeros(d) ==
    IF Len(d) > 0 /\ Char(d, Len(d)) = "0"
    THEN StripZeros(SubSeq(d, 1, Len(d) - 1))
    ELSE d

\* float(t) for t of the form <digits>.<digits>
FloatOf(t) ==
    LET dot   == Find(t, ".", 1)
        whole == SubSeq(t, 1, dot - 1)
        frac  == StripZeros(SubSeq(t, dot + 1, Len(t)))
    IN  PyFloat(IntOf(whole \o frac), Len(frac))

----------------------------------------------------------------------------
(* The three regular expressions of parse_hand_history *)

NoMatch == [matched |-> FALSE]

HandLit == "PokerStars Hand #"

\* r"PokerStars Hand #(\d+):" matched at position i
HandNumberAt(s, i) ==
    LET d1 == i + Len(HandLit)
        e1 == RunEnd(s, d1, Digits)
    IN  IF StartsAt(s, HandLit, i) /\ e1 >= d1 /\ Char(s, e1 + 1) = ":"
        THEN [matched |-> TRUE, group1 |-> SubSeq(s, d1, e1)]
        ELSE NoMatch

\* r"\(\$(\d+\.\d+)/\$(\d+\.\d+)" matched at position i
CashGameAt(s, i) ==
    LET d1 == i + 2
        e1 == RunEnd(s, d1, Digits)
        d2 == e1 + 2
        e2 == RunEnd(s, d2, Digits)
        d3 == e2 + 3
        e3 == RunEnd(s, d3, Digits)
        d4 == e3 + 2
        e4 == RunEnd(s, d4, Digits)
    IN  IF /\ StartsAt(s, "($", i)
           /\ e1 >= d1 /\ Char(s, e1 + 1) = "." /\ e2 >= d2
           /\ StartsAt(s, "/$", e2 + 1)
           /\ e3 >= d3 /\ Char(s, e3 + 1) = "." /\ e4 >= d4
        THEN [matched |-> TRUE, group1 |-> SubSeq(s, d1, e2),
                                group2 |-> SubSeq(s, d3, e4)]
        ELSE NoMatch

\* r"Level \w+ \((\d+)/(\d+)\)" matched at position i
TournamentAt(s, i) ==
    LET w1 == i + 6
        we == RunEnd(s, w1, WordChars)
        d1 == we + 3
        e1 == RunEnd(s, d1, Digits)
        d2 == e1 + 2
        e2 == RunEnd(s, d2, Digits)
    IN  IF /\ StartsAt(s, "Level ", i)
           /\ we >= w1 /\ StartsAt(s, " (", we + 1)
           /\ e1 >= d1 /\ Char(s, e1 + 1) = "/"
           /\ e2 >= d2 /\ Char(s, e2 + 1) = ")"
        THEN [matched |-> TRUE, group1 |-> SubSeq(s, d1, e1),
                                group2 |-> SubSeq(s, d2, e2)]
        ELSE NoMatch

\* re.search scans left to right: the leftmost position that matches
Leftmost(hits) == CHOOSE i \in hits : \A j \in hits : i <= j

hand_number_match(s) ==
    LET hits == {i \in 1..Len(s) : HandNumberAt(s, i).matched}
    IN  IF hits = {} THEN NoMatch ELSE HandNumberAt(s, Leftmost(hits))

cash_game_match(s) ==
    LET hits == {i \in 1..Len(s) : CashGameAt(s, i).matched}
    IN  IF hits = {} THEN NoMatch ELSE CashGameAt(s, Leftmost(hits))

tournament_match(s) ==
    LET hits == {i \in 1..Len(s) : TournamentAt(s, i).matched}
    IN  IF hits = {} THEN NoMatch ELSE TournamentAt(s, Leftmost(hits))

----------------------------------------------------------------------------
(* parse_hand_history *)

\* Blinds with the two patterns tried in the opposite order
Blinds_LevelFirst(text) ==
    LET cash == cash_game_match(text)
        tour == tournament_match(text)
    IN  IF tour.matched
        THEN [small |-> PyInt(IntOf(tour.group1)),
              big   |-> PyInt(IntOf(tour.group2))]
        ELSE IF cash.matched
             THEN [small |-> FloatOf(cash.group1),
                   big   |-> FloatOf(cash.group2)]
             ELSE [small |-> None, big |-> None]

\* the blinds: the cash-stake pattern first, else the Level pattern, else None
Blinds(text) ==
    LET cash == cash_game_match(text)
        tour == tournament_match(text)
    IN  IF cash.matched
        THEN [small |-> FloatOf(cash.group1), big |-> FloatOf(cash.group2)]
        ELSE IF tour.matched
             THEN [small |-> PyInt(IntOf(tour.group1)),
                   big   |-> PyInt(IntOf(tour.group2))]
             ELSE [small |-> None, big |-> None]

\* GameType taken from the blind pattern that matched
GameType_FromBlinds(text) ==
    IF tournament_match(text).matched /\ ~cash_game_match(text).matched
    THEN "Tournament"
    ELSE "Cash"

GameType(text) ==
    IF Contains("Tournament", text) THEN "Tournament" ELSE "Cash"

HandPlayed(text) ==
    IF Contains("everyonedoes folded before Flop (didn't bet)", text)
    THEN "N"
    ELSE IF Contains("everyonedoes (button) folded before Flop (didn't bet)",
                     text)
         THEN "N"
         ELSE "Y"

\* hand_number = int(match.group(1)) if match else None
HandNumber(text) ==
    LET m == hand_number_match(text)
    IN  IF m.matched THEN PyInt(IntOf(m.group1)) ELSE None

\* the value parse_hand_history returns: a dict, or None after the warning
parse_hand_history(text) ==
    LET hand_number == HandNumber(text)
        blinds      == Blinds(text)
    IN  IF ~Truthy(hand_number)
        THEN None
        ELSE [type           |-> "dict",
              HandId         |-> hand_number,
              SmallBlind     |-> blinds.small,
              BigBlind       |-> blinds.big,
              RawHandHistory |-> text,
              GameType       |-> GameType(text),
              HandPlayed     |-> HandPlayed(text)]

----------------------------------------------------------------------------
(* hand_history_text.split("\n\n\n") *)

Separator == "\n\n\n"

\* split that drops the empty blocks
RECURSIVE Split_DropEmpty(_)
Split_DropEmpty(text) ==
    LET p    == Find(text, Separator, 1)
        head == IF p = 0 THEN text ELSE SubSeq(text, 1, p - 1)
        rest == IF p = 0 THEN <<>>
                ELSE Split_DropEmpty(SubSeq(text, p + Len(Separator),
                                            Len(text)))
    IN  IF head = "" THEN rest ELSE <<head>> \o rest

RECURSIVE Split(_)
Split(text) ==
    LET p == Find(text, Separator, 1)
    IN  IF p = 0
        THEN <<text>>
        ELSE <<SubSeq(text, 1, p - 1)>>
                \o Split(SubSeq(text, p + Len(Separator), Len(text)))

----------------------------------------------------------------------------
(* insert_hand_into_db *)

\* the guard without its test of HandId
InsertSkips_NoIdCheck(hand) == ~Truthy(hand)

\* the guard of insert_hand_into_db: nothing is written for such a record
InsertSkips(hand) ==
    IF ~Truthy(hand) THEN TRUE ELSE hand.HandId = None

\* HandId is the PRIMARY KEY of HandHistories: a second row with the same
\* HandId is rejected by the INSERT
KeyFree(hand, rows) ==
    IF InsertSkips(hand) THEN TRUE
    ELSE \A k \in 1..Len(rows) : rows[k].HandId # hand.HandId

\* the effect of insert_hand_into_db(hand) on the rows, the event it logs and
\* whether it raises; ok is the outcome of connect / INSERT / commit
insert_hand_into_db(hand, rows, ok) ==
    IF InsertSkips(hand)
    THEN [rows |-> rows, ev |-> "null_id", raises |-> FALSE]
    ELSE IF ok
         THEN [rows |-> Append(rows, hand), ev |-> "store", raises |-> FALSE]
         ELSE [rows |-> rows, ev |-> "store", raises |-> TRUE]

----------------------------------------------------------------------------
(* Events of a run *)

Event(ev, i, ok) == [ev |-> ev, i |-> i, ok |-> ok]

\* after block i: the next block, or the end of the loop and a normal return
AfterBlock(i) == IF i < Len(hand_histories) THEN "parse" ELSE "done"

----------------------------------------------------------------------------
(* Inputs *)

\* blocks of a hand-history file
SampleBlocks ==
    {"PokerStars Hand #7: Hold'em ($0.01/$0.02 USD)\nSeat 1: hero",
     "PokerStars Hand #8: Tournament #5, Level I (10/20)\nSeat 1: hero",
     "PokerStars Hand #0: Hold'em ($0.01/$0.02 USD)",
     "Seat 1: hero\nhero folded",
     ""}

RECURSIVE Join(_)
Join(blocks) ==
    IF Len(blocks) = 1 THEN blocks[1]
    ELSE blocks[1] \o Separator \o Join(Tail(blocks))

BlockSeqs == UNION {[1..n -> SampleBlocks] : n \in 1..MaxBlocks}

\* what open(filename) / file.read() can find
Files ==
    {[status |-> "missing"], [status |-> "unreadable"]}
        \cup {[status |-> "ok", text |-> Join(bs)] : bs \in BlockSeqs}

NoFile == [status |-> "none"]

----------------------------------------------------------------------------
(* The __main__ script and process_hand_history_file *)

Init ==
    /\ pc = "new"
    /\ file \in Files
    /\ hand_histories = <<>>
    /\ idx = 0
    /\ parsed_hand = None
    /\ table = <<>>
    /\ log = <<>>
    /\ raised = FALSE

\* PokerHandParser(): raises when no SQL Server driver is installed
Construct ==
    /\ pc = "new"
    /\ \E drivers \in BOOLEAN :
          IF drivers
          THEN pc' = "initialize_database" /\ raised' = FALSE
          ELSE pc' = "raised" /\ raised' = TRUE
    /\ UNCHANGED <<file, hand_histories, idx, parsed_hand, table, log>>

\* initialize_database that logs the failure and returns
initialize_database_Swallow ==
    /\ pc = "initialize_database"
    /\ \E ok \in BOOLEAN :
          log' = Append(log, Event(IF ok THEN "initialized" ELSE "init_failed",
                                   0, ok))
    /\ pc' = "create_database_schema"
    /\ UNCHANGED <<file, hand_histories, idx, parsed_hand, table, raised>>

\* initialize_database: logs and re-raises whatever the connection raised
initialize_database ==
    /\ pc = "initialize_database"
    /\ \E ok \in BOOLEAN :
          IF ok
          THEN /\ pc' = "create_database_schema"
               /\ log' = Append(log, Event("initialized", 0, TRUE))
               /\ raised' = FALSE
          ELSE /\ pc' = "raised"
               /\ log' = Append(log, Event("init_failed", 0, FALSE))
               /\ raised' = TRUE
    /\ UNCHANGED <<file, hand_histories, idx, parsed_hand, table>>

\* create_database_schema: logs and re-raises whatever the connection raised
create_database_schema ==
    /\ pc = "create_database_schema"
    /\ \E ok \in BOOLEAN :
          IF ok
          THEN /\ pc' = "process_hand_history_file"
               /\ log' = Append(log, Event("schema", 0, TRUE))
               /\ raised' = FALSE
          ELSE /\ pc' = "raised"
               /\ log' = Append(log, Event("schema_failed", 0, FALSE))
               /\ raised' = TRUE
    /\ UNCHANGED <<file, hand_histories, idx, parsed_hand, table>>

\* ReadFile without the FileNotFoundError handler
ReadFile_Raise ==
    /\ pc = "process_hand_history_file"
    /\ IF file.status = "ok"
       THEN /\ hand_histories' = Split(file.text)
            /\ idx' = 1
            /\ pc' = "parse"
            /\ log' = Append(log, Event("read", 0, TRUE))
            /\ UNCHANGED raised
       ELSE /\ pc' = "raised"
            /\ log' = Append(log, Event("read_failed", 0, FALSE))
            /\ raised' = TRUE
            /\ UNCHANGED <<hand_histories, idx>>
    /\ UNCHANGED <<file, parsed_hand, table>>

\* process_hand_history_file up to the loop: open, read, split
ReadFile ==
    /\ pc = "process_hand_history_file"
    /\ CASE file.status = "missing" ->
              /\ pc' = "done"
              /\ log' = Append(log, Event("not_found", 0, FALSE))
              /\ UNCHANGED <<hand_histories, idx, raised>>
         [] file.status = "unreadable" ->
              /\ pc' = "raised"
              /\ log' = Append(log, Event("read_failed", 0, FALSE))
              /\ raised' = TRUE
              /\ UNCHANGED <<hand_histories, idx>>
         [] OTHER ->
              /\ hand_histories' = Split(file.text)
              /\ idx' = 1
              /\ pc' = "parse"
              /\ log' = Append(log, Event("read", 0, TRUE))
              /\ UNCHANGED raised
    /\ UNCHANGED <<file, parsed_hand, table>>

\* ParseBlock without the loop's handler: a fault ends the call
ParseBlock_Abort ==
    /\ pc = "parse"
    /\ \E fault \in BOOLEAN :
          LET hand == parse_hand_history(hand_histories[idx])
              seen == Append(log, Event("parse", idx, ~fault))
          IN  IF fault
              THEN /\ parsed_hand' = parsed_hand
                   /\ log' = Append(seen, Event("error", idx, FALSE))
                   /\ pc' = "raised"
                   /\ raised' = TRUE
                   /\ idx' = idx
              ELSE /\ parsed_hand' = hand
                   /\ raised' = raised
                   /\ IF Truthy(hand)
                      THEN /\ log' = seen
                           /\ pc' = "insert"
                           /\ idx' = idx
                      ELSE /\ log' = Append(seen, Event("skip", idx, FALSE))
                           /\ pc' = AfterBlock(idx)
                           /\ idx' = idx + 1
    /\ UNCHANGED <<file, hand_histories, table>>

\* one iteration of the loop up to `if parsed_hand:`; fault stands for an
\* exception inside parse_hand_history, which it logs and re-raises and the
\* loop's handler logs before it continues
ParseBlock ==
    /\ pc = "parse"
    /\ \E fault \in BOOLEAN :
          LET hand == parse_hand_history(hand_histories[idx])
              seen == Append(log, Event("parse", idx, ~fault))
          IN  IF fault
              THEN /\ parsed_hand' = parsed_hand
                   /\ log' = Append(seen, Event("error", idx, FALSE))
                   /\ pc' = AfterBlock(idx)
                   /\ idx' = idx + 1
              ELSE /\ parsed_hand' = hand
                   /\ IF Truthy(hand)
                      THEN /\ log' = seen
                           /\ pc' = "insert"
                           /\ idx' = idx
                      ELSE /\ log' = Append(seen, Event("skip", idx, FALSE))
                           /\ pc' = AfterBlock(idx)
                           /\ idx' = idx + 1
    /\ UNCHANGED <<file, hand_histories, table, raised>>

\* InsertHand that tries a failed record a second time
InsertHand_Retry ==
    /\ pc = "insert"
    /\ \E ok \in BOOLEAN :
          LET r     == insert_hand_into_db(parsed_hand, table, ok)
              again == r.raises /\ log[Len(log)].ev # "store"
          IN  /\ ok => KeyFree(parsed_hand, table)
              /\ log' = Append(log, Event(r.ev, idx, ~r.raises))
              /\ table' = r.rows
              /\ pc' = IF again THEN "insert" ELSE AfterBlock(idx)
              /\ idx' = IF again THEN idx ELSE idx + 1
    /\ UNCHANGED <<file, hand_histories, parsed_hand, raised>>

\* the rest of the iteration: insert_hand_into_db(parsed_hand); an exception
\* it raises is caught by the loop's handler, and the loop continues
InsertHand ==
    /\ pc = "insert"
    /\ \E ok \in BOOLEAN :
          LET r == insert_hand_into_db(parsed_hand, table, ok)
          IN  /\ ok => KeyFree(parsed_hand, table)
              /\ log' = Append(log, Event(r.ev, idx, ~r.raises))
              /\ table' = r.rows
    /\ pc' = AfterBlock(idx)
    /\ idx' = idx + 1
    /\ UNCHANGED <<file, hand_histories, parsed_hand, raised>>

Next ==
    \/ Construct
    \/ initialize_database
    \/ create_database_schema
    \/ ReadFile
    \/ ParseBlock
    \/ InsertHand

Spec == Init /\ [][Next]_vars

----------------------------------------------------------------------------
(* Direct calls of parse_hand_history and insert_hand_into_db *)

Fragments ==
    {"PokerStars Hand #7:",
     "PokerStars Hand #0:",
     "PokerStars Hand #",
     "42:",
     "0",
     " ($0.50/$1.00",
     " ($2/$4",
     " Level I (10/20)",
     " Level (5/10)",
     " Tournament",
     " everyonedoes folded before Flop (didn't bet)"}

RECURSIVE Concat(_)
Concat(frags) ==
    IF Len(frags) = 0 THEN "" ELSE frags[1] \o Concat(Tail(frags))

ParseInputs ==
    {Concat(fs) : fs \in UNION {[1..n -> Fragments] : n \in 0..MaxFrags}}

\* a record without a hand id, as a caller could hand it to the insert
NullIdHand ==
    [type |-> "dict", HandId |-> None, SmallBlind |-> None, BigBlind |-> None,
     RawHandHistory |-> "", GameType |-> "Cash", HandPlayed |-> "Y"]

InitParse ==
    /\ pc = "call"
    /\ file = NoFile
    /\ hand_histories \in {<<b>> : b \in ParseInputs}
    /\ idx = 1
    /\ parsed_hand \in {None, NullIdHand}
    /\ table = <<>>
    /\ log = <<>>
    /\ raised = FALSE

\* parsed_hand = parse_hand_history(block)
CallParse ==
    /\ pc = "call"
    /\ parsed_hand = None
    /\ LET hand == parse_hand_history(hand_histories[idx])
       IN  /\ parsed_hand' = hand
           /\ log' = IF hand = None
                     THEN Append(log, Event("skip", idx, FALSE))
                     ELSE log
    /\ pc' = "parsed"
    /\ UNCHANGED <<file, hand_histories, idx, table, raised>>

\* insert_hand_into_db(parsed_hand), called without the loop around it
CallInsert ==
    /\ pc \in {"call", "parsed"}
    /\ \E ok \in BOOLEAN :
          LET r == insert_hand_into_db(parsed_hand, table, ok)
          IN  /\ ok => KeyFree(parsed_hand, table)
              /\ log' = Append(log, Event(r.ev, idx, ~r.raises))
              /\ table' = r.rows
              /\ raised' = r.raises
    /\ pc' = "inserted"
    /\ UNCHANGED <<file, hand_histories, idx, parsed_hand>>

NextParse == CallParse \/ CallInsert

SpecParse == InitParse /\ [][NextParse]_vars

----------------------------------------------------------------------------
(* Direct use of the splitter *)

Alphabet == {"\n", "a"}

RECURSIVE Texts(_)
Texts(n) ==
    IF n = 0 THEN {""}
    ELSE LET shorter == Texts(n - 1)
         IN  shorter \cup {t \o c : t \in shorter, c \in Alphabet}

InitSplit ==
    /\ pc = "call"
    /\ file \in {[status |-> "ok", text |-> t] : t \in Texts(MaxLen)}
    /\ hand_histories = <<>>
    /\ idx = 0
    /\ parsed_hand = None
    /\ table = <<>>
    /\ log = <<>>
    /\ raised = FALSE

\* hand_histories = hand_history_text.split("\n\n\n")
CallSplit ==
    /\ pc = "call"
    /\ hand_histories' = Split(file.text)
    /\ pc' = "split"
    /\ UNCHANGED <<file, idx, parsed_hand, table, log, raised>>

NextSplit == CallSplit

SpecSplit == InitSplit /\ [][NextSplit]_vars

----------------------------------------------------------------------------
(* Properties *)

\* positions of the events of one kind in the log
Events(ev) == {k \in 1..Len(log) : log[k].ev = ev}

\* the hand-identifier pattern occurs in the block
HasHandPattern(block) == hand_number_match(block).matched

\* the block given to a direct call
Block == hand_histories[1]

HasTournamentWord(block) ==
    \E i \in 1..(Len(block) - 9) : SubSeq(block, i, i + 9) = "Tournament"

HasTriple(text) ==
    \E i \in 1..(Len(text) - 2) : SubSeq(text, i, i + 2) = "\n\n\n"

\* occurrences of three newlines met when scanning from position i, each
\* scan resuming after the occurrence it found
RECURSIVE CountTriples(_, _)
CountTriples(text, i) ==
    IF i + 2 > Len(text) THEN 0
    ELSE IF SubSeq(text, i, i + 2) = "\n\n\n"
         THEN 1 + CountTriples(text, i + 3)
         ELSE CountTriples(text, i + 1)

\* C1: when process_hand_history_file has returned for a file whose blocks
\* all contain the hand-id pattern except exactly one, and no block faulted
\* and no store failed, the rows persisted are as many as the blocks with the
\* pattern, exactly one skip was logged, and nothing was raised.
C1_NPersistedOneSkip ==
    (/\ pc = "done"
     /\ file.status = "ok"
     /\ Cardinality({i \in 1..Len(hand_histories) :
                        ~HasHandPattern(hand_histories[i])}) = 1
     /\ Events("error") = {}
     /\ \A k \in Events("store") : log[k].ok)
    => /\ Len(table) = Cardinality({i \in 1..Len(hand_histories) :
                                       HasHandPattern(hand_histories[i])})
       /\ Cardinality(Events("skip")) = 1
       /\ ~raised

\* C2: once the file was read the call never raises; every block before the
\* loop's position was parsed, every one of them that parsed to a record was
\* handed to the store, whatever happened to the blocks before it; and the
\* call returns only after the last block.
C2_BlockFaultsIsolated ==
    Events("read") # {} =>
        /\ ~raised
        /\ pc \in {"parse", "insert", "done"}
        /\ pc = "done" => idx = Len(hand_histories) + 1
        /\ \A i \in 1..Len(hand_histories) :
              i < idx =>
                 /\ \E k \in Events("parse") : log[k].i = i
                 /\ (/\ \E k \in Events("parse") : log[k].i = i /\ log[k].ok
                     /\ Truthy(parse_hand_history(hand_histories[i])))
                    => \E k \in Events("store") : log[k].i = i

C2_Witness ==
    /\ pc = "done"
    /\ \E e \in Events("error"), f \in Events("store"), g \in Events("store") :
          /\ ~log[f].ok
          /\ log[g].ok
          /\ log[e].i < log[g].i
          /\ log[f].i < log[g].i

\* C3: every store attempt directly follows the parse of its own block, and
\* the store attempts, like the parses, are in strictly increasing block
\* order: no block is stored twice, also after a failed attempt.
C3_StoreOnceInOrder ==
    /\ \A a \in Events("store") :
          a > 1 /\ log[a - 1] = Event("parse", log[a].i, TRUE)
    /\ \A a, b \in Events("store") : a < b => log[a].i < log[b].i
    /\ \A a, b \in Events("parse") : a < b => log[a].i < log[b].i

C3_Witness ==
    \E a \in Events("store") :
       /\ ~log[a].ok
       /\ a < Len(log)
       /\ log[a + 1] = Event("parse", log[a].i + 1, TRUE)

\* C4: when the file does not exist, no block is parsed, nothing is stored,
\* and process_hand_history_file returns normally without raising.
C4_MissingFileReturns ==
    file.status = "missing" =>
        /\ Events("parse") = {}
        /\ Events("store") = {}
        /\ table = <<>>
        /\ hand_histories = <<>>
        /\ Events("schema") # {} => ~raised
        /\ Events("not_found") # {} => pc = "done"

C4_Witness ==
    /\ file.status = "missing"
    /\ pc = "done"
    /\ Events("not_found") # {}

\* C5: a failure of initialize_database or create_database_schema reaches
\* the caller and is the last thing that happens: no file is read, no block
\* parsed, no record stored; the file is only processed after both succeeded.
C5_SetupFaultStops ==
    /\ \A k \in Events("init_failed") \cup Events("schema_failed") :
          /\ k = Len(log)
          /\ raised
          /\ pc = "raised"
          /\ table = <<>>
          /\ hand_histories = <<>>
    /\ \A k \in 1..Len(log) :
          log[k].ev \in {"read", "not_found", "read_failed", "parse", "store"}
             => /\ k > 2
                /\ log[1].ev = "initialized"
                /\ log[2].ev = "schema"

C5_Witness ==
    /\ pc = "raised"
    /\ Events("schema_failed") # {}
    /\ file.status = "ok"

\* C6: every record parse_hand_history returns and every row written by
\* insert_hand_into_db has an integer HandId; a block without a hand id
\* gives no record, and a call of the insert without a hand id writes no row.
C6_HandIdNeverNull ==
    /\ \A k \in 1..Len(table) : table[k].HandId.type = "int"
    /\ pc = "parsed" =>
          IF parsed_hand = None
          THEN ~Truthy(HandNumber(Block))
          ELSE /\ parsed_hand.HandId.type = "int"
               /\ parsed_hand.HandId = HandNumber(Block)
    /\ (pc = "inserted" /\ parsed_hand \in {None, NullIdHand}) =>
          /\ table = <<>>
          /\ Events("store") = {}

C6_Witness ==
    /\ pc = "inserted"
    /\ parsed_hand = NullIdHand
    /\ Events("null_id") # {}

\* C7: parse_hand_history returns no record exactly for the blocks without
\* the hand-identifier pattern, and for every block with the pattern a record
\* whose hand id is the integer value of the digits of the first occurrence.
C7_NoRecordIffPatternAbsent ==
    pc = "parsed" =>
        LET m == hand_number_match(Block)
        IN  IF m.matched
            THEN IF parsed_hand = None THEN FALSE
                 ELSE parsed_hand.HandId = PyInt(IntOf(m.group1))
            ELSE parsed_hand = None

\* C8: for a record, the blinds are the two decimals of the cash-stake
\* pattern when it matches (also when the Level pattern matches too), else the
\* two integers of the Level pattern when it matches, else both None; the two
\* blinds always have the same kind.
C8_BlindsPrecedence ==
    (pc = "parsed" /\ parsed_hand # None) =>
        LET cash  == cash_game_match(Block)
            tour  == tournament_match(Block)
            small == parsed_hand.SmallBlind
            big   == parsed_hand.BigBlind
        IN  /\ small.type = big.type
            /\ cash.matched =>
                  /\ small = FloatOf(cash.group1)
                  /\ big = FloatOf(cash.group2)
                  /\ small.type = "float"
            /\ (~cash.matched /\ tour.matched) =>
                  /\ small = PyInt(IntOf(tour.group1))
                  /\ big = PyInt(IntOf(tour.group2))
            /\ (~cash.matched /\ ~tour.matched) =>
                  /\ small = None
                  /\ big = None
            /\ Block = "PokerStars Hand #7: Level I (10/20)" =>
                  /\ small = PyInt(10)
                  /\ big = PyInt(20)
            /\ Block = "PokerStars Hand #7: ($0.50/$1.00 Level I (10/20)" =>
                  /\ small = PyFloat(5, 1)
                  /\ big = PyFloat(1, 0)

C8_Witness ==
    /\ pc = "parsed"
    /\ parsed_hand # None
    /\ cash_game_match(Block).matched
    /\ tournament_match(Block).matched

\* C9: for a record, game_type is "Tournament" exactly when the word
\* Tournament occurs in the block and "Cash" otherwise, whichever blind
\* pattern matched.
C9_GameTypeFromWord ==
    (pc = "parsed" /\ parsed_hand # None) =>
        /\ parsed_hand.GameType =
              (IF HasTournamentWord(Block) THEN "Tournament" ELSE "Cash")
        /\ Block = "PokerStars Hand #7: ($0.50/$1.00 Tournament" =>
              parsed_hand.GameType = "Tournament"
        /\ Block = "PokerStars Hand #7: Level I (10/20)" =>
              parsed_hand.GameType = "Cash"

C9_Witness ==
    /\ pc = "parsed"
    /\ parsed_hand # None
    /\ cash_game_match(Block).matched
    /\ ~tournament_match(Block).matched
    /\ parsed_hand.GameType = "Tournament"

\* C10: the blocks of a text are one more than the triple newlines met when
\* scanning left to right, a text without one is its own single block, no
\* block contains a triple newline, and the blocks joined by the separator
\* are the text again, empty blocks included.
C10_SplitAtTripleNewlines ==
    pc = "split" =>
        /\ Len(hand_histories) = CountTriples(file.text, 1) + 1
        /\ ~HasTriple(file.text) => hand_histories = <<file.text>>
        /\ \A i \in 1..Len(hand_histories) : ~HasTriple(hand_histories[i])
        /\ Join(hand_histories) = file.text

C10_Witness ==
    /\ pc = "split"
    /\ Len(hand_histories) = 3
    /\ hand_histories[1] # ""
    /\ hand_histories[3] = ""

====
